---- MODULE Spec2Model ----
(***************************************************************************)
(* A model of alcionai/clog: the settings resolver (src/settings.go:1-161), *)
(* the logger factory, singleton and context carrier in its two drafts, and *)
(* what each draft logs through: src/settings.go:163-373, whose singleton   *)
(* is a *clogger and whose Ctx makes a builder (src/builder.go:1-181), and  *)
(* src/unnamed/part_000, whose singleton is a *zap.SugaredLogger and whose  *)
(* Ctx returns that logger with the context's fields, with its wrapper and  *)
(* its Writer.                                                              *)
(***************************************************************************)
EXTENDS Integers, Sequences, FiniteSets, TLC

\* ---------------------------------------------------------------------------
\* bounds of the model
\* ---------------------------------------------------------------------------

\* the clock (time.Now, in seconds) runs from 0 to MaxClock
MaxClock == 1
\* builders that exist at once
MaxBuilders == 2
\* records the sink holds
MaxSink == 2
\* loggers genLogger may construct in one run (the code constructs one)
MaxBuilt == 2
\* arguments of one With(...) call
MaxArgs == 3

\* ---------------------------------------------------------------------------
\* consts (src/settings.go:17-48)
\* ---------------------------------------------------------------------------

LevelDebug == "debug"
LevelInfo == "info"
LevelError == "error"
LevelDisabled == "disabled"

FormatForHumans == "human"
FormatToJSON == "json"

HashSensitiveInfo == "hash"
MaskSensitiveInfo == "mask"
ShowSensitiveInfoInPlainText == "plaintext"

Stderr == "stderr"
Stdout == "stdout"

\* builder levels (src/builder.go:39-43)
lvlDebug == "debug"
lvlInfo == "info"
lvlError == "error"

\* ---------------------------------------------------------------------------
\* Settings (src/settings.go:63-76) and the settings resolver
\* ---------------------------------------------------------------------------

\* Settings{}: the zero value
ZeroSettings ==
  [File |-> "", Format |-> "", Level |-> "", SensitiveInfoHandling |-> "",
   OnlyLogDebugIfContainsLabel |-> <<>>]

\* defaultLogLocation(): a path under the log directory named after the
\* current UTC time, to the second
defaultLogLocation(now) ==
  "HOME/Library/Logs/clog/" \o ToString(now) \o ".log"

\* GetLogFileOrDefault(useThisFile), reading ResolvedLogFile (rlf), the
\* CLOG_FILE environment variable (envv) and the clock; mkdirOk is whether
\* os.MkdirAll succeeds
GetLogFileOrDefault(useThisFile, rlf, envv, now, mkdirOk) ==
  IF rlf # ""
    THEN rlf
    ELSE LET r0 == IF envv = "" THEN defaultLogLocation(now) ELSE envv
             r1 == IF useThisFile # "" THEN useThisFile ELSE r0
             r2 == IF r1 = "-" THEN Stdout ELSE r1
         IN IF r2 # Stdout /\ r2 # Stderr /\ ~mkdirOk THEN Stderr ELSE r2

\* EnsureDefaults, the part that normalises Level, Format and
\* SensitiveInfoHandling (src/settings.go:83-96)
EnsureEnumsKeepNothing(s) ==
  [s EXCEPT !.Level = LevelInfo, !.Format = FormatForHumans,
            !.SensitiveInfoHandling = ShowSensitiveInfoInPlainText]

EnsureEnums(s) ==
  LET levels == {LevelDisabled, LevelDebug, LevelInfo, LevelError}
      formats == {FormatForHumans, FormatToJSON}
      algs == {ShowSensitiveInfoInPlainText, MaskSensitiveInfo, HashSensitiveInfo}
  IN [s EXCEPT
        !.Level = IF s.Level = "" \/ s.Level \notin levels
                    THEN LevelInfo ELSE s.Level,
        !.Format = IF s.Format = "" \/ s.Format \notin formats
                     THEN FormatForHumans ELSE s.Format,
        !.SensitiveInfoHandling =
           IF s.SensitiveInfoHandling = "" \/ s.SensitiveInfoHandling \notin algs
             THEN ShowSensitiveInfoInPlainText ELSE s.SensitiveInfoHandling]

\* EnsureDefaults(): the settings it returns and the ResolvedLogFile it leaves
EnsureDefaults(s, rlf, envv, now, mkdirOk) ==
  LET set == EnsureEnums(s)
  IN IF set.File = ""
       THEN LET f == GetLogFileOrDefault("", rlf, envv, now, mkdirOk)
            IN [set |-> [set EXCEPT !.File = f], rlf |-> f]
       ELSE [set |-> set, rlf |-> rlf]

\* ---------------------------------------------------------------------------
\* logger factory (src/settings.go:191-278)
\* ---------------------------------------------------------------------------

\* a *zap.SugaredLogger: its identity, the lowest level it lets through
\* ("off": none), its output path, its encoder, and whether it is the
\* zapcoreFallback logger
NilZsl == [id |-> 0, min |-> "", file |-> "", json |-> FALSE, fb |-> FALSE]
\* a logger built outside of clog and handed to Seed
UserZsl == [id |-> 9, min |-> "debug", file |-> Stderr, json |-> FALSE, fb |-> FALSE]

\* zapcore.Level order of the levels in play:
\* debug < info < error < fatal
LevelRank(l) ==
  CASE l = "debug" -> 0 [] l = "info" -> 1 [] l = "error" -> 3 [] l = "fatal" -> 6
    [] OTHER -> 9

\* setLevel(cfg, level): the level the config ends with, given the level
\* cfgLevel the config came with
setLevel(cfgLevel, level) ==
  CASE level = LevelInfo -> "info"
    [] level = LevelError -> "error"
    [] level = LevelDisabled -> "fatal"
    [] OTHER -> cfgLevel

\* zapcoreFallback(set): a console logger on stderr with the level filter
zapcoreFallback(set) ==
  [id |-> 0,
   min |-> CASE set.Level = LevelInfo -> "info"
             [] set.Level = LevelError -> "error"
             [] set.Level = LevelDisabled -> "off"
             [] OTHER -> "debug",
   file |-> Stderr, json |-> FALSE, fb |-> TRUE]

\* genLogger(set): testV is whether os.Args holds --test.v=true, buildOk is
\* whether zcfg.Build succeeds.  zap.NewProductionConfig() comes at info
\* level, zap.NewDevelopmentConfig() at debug level.
genLogger(set, testV, buildOk, newId) ==
  LET s == IF testV THEN [set EXCEPT !.Level = LevelDebug] ELSE set
      json == s.Format = FormatToJSON
      lvl == IF json THEN setLevel("info", s.Level) ELSE setLevel("debug", s.Level)
      zlog == IF buildOk
                THEN [id |-> 0, min |-> lvl, file |-> s.File, json |-> json, fb |-> FALSE]
                ELSE zapcoreFallback(s)
  IN [zlog EXCEPT !.id = newId]

\* whether a logger writes a record of the given level
Enabled(zsl, l) ==
  zsl.min # "off" /\ LevelRank(l) >= LevelRank(zsl.min)

\* ---------------------------------------------------------------------------
\* values carried by contexts, errors and builders
\* ---------------------------------------------------------------------------

\* metadata keys and values (clues data, With pairs)
Keys == {"foo", "fnords"}
Vals == {"bar", "baz", "qux", "smarf"}
\* a key a map does not hold, and the nil value of an unpaired With key
Absent == "<absent>"
NilValue == "<nil>"
\* values a With call is given
ArgVals == {"qux", "bar"}

Labels == {"clabel_api_call", "l2"}
Comments == {"a comment", "another comment"}

\* a Go map[any]any: nil, or a mapping of the keys it holds
NilMap == [isNil |-> TRUE, m |-> [k \in Keys |-> Absent]]
EmptyMap == [isNil |-> FALSE, m |-> [k \in Keys |-> Absent]]
\* a Go map[string]struct{}: nil, or the set of its keys
NilSet == [isNil |-> TRUE, s |-> {}]
EmptySet == [isNil |-> FALSE, s |-> {}]

\* errors: none (nil), and a clues error with metadata and a label
Errs == {"none", "e1"}
\* clues.InErr(err).Map()
InErrMap(err) ==
  IF err = "e1"
    THEN [k \in Keys |-> IF k = "foo" THEN "baz" ELSE "smarf"]
    ELSE [k \in Keys |-> Absent]
\* clues.Labels(err)
ErrLabels(err) == IF err = "e1" THEN {"errLabel"} ELSE {}

\* the value a context holds under ctxKey: nothing, a *zap.SugaredLogger
\* (part_000) or a *clogger (settings.go:182-185)
NoVal == [type |-> "nil", zsl |-> NilZsl, set |-> ZeroSettings]
ZslVal(z) == [type |-> "zsl", zsl |-> z, set |-> ZeroSettings]
CloggerVal(z, s) == [type |-> "clogger", zsl |-> z, set |-> s]

\* a context: the value under ctxKey and the clues metadata it carries
Background(cv) == [val |-> NoVal, cv |-> cv]
\* context.WithValue(ctx, ctxKey, v)
WithValue(ctx, v) == [ctx EXCEPT !.val = v]
\* ctx.Value(ctxKey)
Value(ctx) == ctx.val
\* clues.In(ctx).Map()
InMap(ctx) == ctx.cv

\* ---------------------------------------------------------------------------
\* context carrier, draft of src/settings.go:313-350
\* ---------------------------------------------------------------------------

\* plantLoggerInCtx(ctx, clogger); clogger is a CloggerVal, or NoVal for nil
plantLoggerInCtx(ctx, clogger) ==
  IF clogger.type = "nil" THEN ctx ELSE WithValue(ctx, clogger)

\* Seed(ctx, seed): the context it returns
Seed(ctx, seed) == plantLoggerInCtx(ctx, CloggerVal(seed, ZeroSettings))

\* the type assertion l.(*zap.SugaredLogger) that ends fromCtx and CtxOrSeed:
\* whether it holds of the value, and what it yields
IsZsl(l) == l.type = "zsl"

\* ---------------------------------------------------------------------------
\* context carrier, draft of src/unnamed/part_000:145-200
\* ---------------------------------------------------------------------------

\* embedIntoCtx(ctx, logger)
embedIntoCtx(ctx, logger) ==
  IF logger = NilZsl THEN ctx ELSE WithValue(ctx, ZslVal(logger))

\* Seed(ctx, logger) of part_000
SeedZsl(ctx, logger) == embedIntoCtx(ctx, logger)

\* ---------------------------------------------------------------------------
\* builder (src/builder.go:19-164)
\* ---------------------------------------------------------------------------

NoBuilder ==
  [ctx |-> Background([k \in Keys |-> Absent]), err |-> "none", zsl |-> NilZsl,
   with |-> NilMap, labels |-> NilSet, comments |-> NilSet, live |-> FALSE]

\* newBuilder(ctx), given the logger fromCtx(ctx) returned: the maps are
\* left at their zero value, nil
newBuilder(ctx, zsl) ==
  [ctx |-> ctx, err |-> "none", zsl |-> zsl,
   with |-> NilMap, labels |-> NilSet, comments |-> NilSet, live |-> TRUE]

\* CtxErr(ctx, err), given the logger fromCtx(ctx) returned
CtxErr(ctx, err, zsl) == [newBuilder(ctx, zsl) EXCEPT !.err = err]

\* the mutators return the builder they leave and whether they panicked
\* (an assignment to an entry of a nil map panics)

\* Err(err)
Err(bld, err) == [b |-> [bld EXCEPT !.err = err], panic |-> FALSE]

\* Label(ls...)
Label(bld, ls) ==
  IF Len(ls) = 0
    THEN [b |-> bld, panic |-> FALSE]
    ELSE IF bld.labels.isNil
      THEN [b |-> bld, panic |-> TRUE]
      ELSE [b |-> [bld EXCEPT !.labels.s = @ \cup {ls[i] : i \in 1..Len(ls)}],
            panic |-> FALSE]

\* Comment(cmnt)
Comment(bld, cmnt) ==
  IF bld.comments.isNil
    THEN [b |-> bld, panic |-> TRUE]
    ELSE [b |-> [bld EXCEPT !.comments.s = @ \cup {cmnt}], panic |-> FALSE]

\* the loop of With: i runs over the positions of the keys, 1, 3, 5, ...
RECURSIVE WithFrom(_, _, _)
WithFrom(m, vs, i) ==
  IF i > Len(vs)
    THEN m
    ELSE WithFrom([m EXCEPT ![vs[i]] = IF i + 1 <= Len(vs) THEN vs[i + 1] ELSE NilValue],
                  vs, i + 2)

\* With(vs...)
With(bld, vs) ==
  IF Len(vs) = 0
    THEN [b |-> bld, panic |-> FALSE]
    ELSE IF bld.with.isNil
      THEN [b |-> bld, panic |-> TRUE]
      ELSE [b |-> [bld EXCEPT !.with.m = WithFrom(@, vs, 1)], panic |-> FALSE]

\* the orders in which a range over a map may visit its keys
KeyOrders ==
  {o \in [1..Cardinality(Keys) -> Keys] : \A i, j \in DOMAIN o : i # j => o[i] # o[j]}

\* zsl.With(k, v) for every k, v of the map m, visited in the given order
RangeFields(m, order) ==
  LET present == SelectSeq(order, LAMBDA k : m[k] # Absent)
  IN [i \in 1..Len(present) |-> [k |-> present[i], v |-> m[present[i]], s |-> {}]]

\* maps.Copy(dst, src)
MapsCopy(dst, src) == [k \in Keys |-> IF src[k] # Absent THEN src[k] ELSE dst[k]]

\* the fields log attaches to the logger, in the order of its zsl.With
\* calls; a field is a key with a value (v) or a collection (s)
logFields(bld, o1, o2) ==
  LET cv0 == InMap(bld.ctx)
      cv == IF bld.err # "none" THEN MapsCopy(cv0, InErrMap(bld.err)) ELSE cv0
      errFields == IF bld.err # "none"
                     THEN << [k |-> "error", v |-> bld.err, s |-> {}],
                             [k |-> "error_labels", v |-> "", s |-> ErrLabels(bld.err)] >>
                     ELSE << >>
  IN errFields \o RangeFields(cv, o1) \o RangeFields(bld.with.m, o2)
       \o << [k |-> "clog_labels", v |-> "", s |-> bld.labels.s],
             [k |-> "clog_comments", v |-> "", s |-> bld.comments.s] >>

\* log(l, msg): the record handed to zsl.Debug, zsl.Info or zsl.Error, and
\* whether the logger's level lets it through
log(bld, l, msg, o1, o2) ==
  [lvl |-> l, msg |-> msg, zsl |-> bld.zsl.id, fields |-> logFields(bld, o1, o2),
   written |-> Enabled(bld.zsl, l)]

\* ---------------------------------------------------------------------------
\* loggers with fields, wrapper (src/unnamed/part_000:203-294)
\* ---------------------------------------------------------------------------

\* a *zap.SugaredLogger as zsl.With(...) returns it: the logger and the
\* fields attached to it, in the order of the With calls
Bare(zsl) == [zsl |-> zsl, fields |-> << >>]

\* Ctx(ctx) of part_000, given the logger fromCtx(ctx) returned: the fields
\* are those of clues.In(ctx).Slice(), which ranges over a map
CtxZsl(ctx, zsl, o) == [zsl |-> zsl, fields |-> RangeFields(InMap(ctx), o)]

\* CtxErr(ctx, err) of part_000, given the logger fromCtx(ctx) returned: the
\* error and its labels are attached whether or not there is an error
CtxErrZsl(ctx, err, zsl, o) ==
  LET ctxVals == MapsCopy(InMap(ctx), InErrMap(err))
  IN [zsl |-> zsl,
      fields |-> << [k |-> "error", v |-> IF err = "none" THEN NilValue ELSE err, s |-> {}],
                    [k |-> "error_labels", v |-> "", s |-> ErrLabels(err)] >>
                   \o RangeFields(ctxVals, o)]

\* the record a logger with fields is handed by its Debug, Info or Error, or
\* by their f forms, and whether its level lets the record through
Record(lg, l, msg) ==
  [lvl |-> l, msg |-> msg, zsl |-> lg.zsl.id, fields |-> lg.fields,
   written |-> Enabled(lg.zsl, l)]

\* the options a caller may give WrapCtx and Wrap
Options == {<< >>, << "ForceDebugLogLevel" >>}

\* ForceDebugLogLevel(): what the option does to the wrapper
ForceDebugLogLevel(w) == [w EXCEPT !.forceDebugLogLevel = TRUE]

\* (*wrapper).process(opts...)
RECURSIVE process(_, _)
process(w, opts) ==
  IF Len(opts) = 0 THEN w ELSE process(ForceDebugLogLevel(w), Tail(opts))

\* Wrap(zsl, opts...), for a logger that is not nil: the wrapper holds a copy
\* of the logger
Wrap(lg, opts) ==
  process([zsl |-> lg.zsl, fields |-> lg.fields, forceDebugLogLevel |-> FALSE], opts)

\* (*wrapper).Logf(tmpl): the record it hands to the logger
Logf(w, tmpl) ==
  IF w.forceDebugLogLevel THEN Record(w, lvlDebug, tmpl) ELSE Record(w, lvlInfo, tmpl)

\* (*wrapper).Errorf(tmpl): the record it hands to the logger
Errorf(w, tmpl) ==
  IF w.forceDebugLogLevel THEN Record(w, lvlDebug, tmpl) ELSE Record(w, lvlError, tmpl)

\* ---------------------------------------------------------------------------
\* state
\* ---------------------------------------------------------------------------

VARIABLES
  draft,            \* which draft of the logger and context carrier is built in:
                    \* "clogger" (src/settings.go:163-373) or "zsl" (part_000)
  testV,            \* whether os.Args holds --test.v=true
  env,              \* the CLOG_FILE environment variable
  clock,            \* time.Now(), in seconds
  ResolvedLogFile,  \* src/settings.go:60
  cluesHasher,      \* the hasher setCluesSecretsHash has set in clues
  singleMu,         \* the goroutine that holds the mutex, or "free"
  cloggerton,       \* the singleton (loggerton in part_000), NoVal while nil
  pc,               \* where each goroutine is in its call
  fr,               \* each goroutine's call frame
  ctxs,             \* the contexts the callers hold
  builders,         \* the builders the callers hold
  wrappers,         \* the wrappers the callers hold (part_000)
  sink,             \* the records handed to the loggers, in order
  panicked,         \* "" or the runtime panic that ended the program
  built,            \* history: the loggers genLogger has constructed
  returned,         \* history: the values singleton() has returned
  held,             \* the Settings value a caller of the settings resolver holds
  last              \* history: the last call of the settings resolver, of
                    \* Writer.Write or of part_000's Ctx and CtxErr

vars ==
  << draft, testV, env, clock, ResolvedLogFile, cluesHasher, singleMu, cloggerton,
     pc, fr, ctxs, builders, wrappers, sink, panicked, built, returned, held, last >>

\* the variables of the settings resolver's environment
envVars == << draft, testV, env >>
\* the variables of the singleton and of the goroutines resolving it
singleVars == << cluesHasher, singleMu, cloggerton, pc, fr, built, returned >>
\* the variables of the builders and of the wrappers
builderVars == << builders, wrappers >>
\* the variables of the callers of the settings resolver
settingsVars == << held, last >>

Procs == {"p1", "p2"}
Drafts == {"clogger", "zsl"}
Envs == {"", "-"}
BuilderIds == 1..MaxBuilders

NoCv == [k \in Keys |-> Absent]
\* the clues metadata context.Background() is given before clog sees it
RootCvs == {[k \in Keys |-> IF k = "foo" THEN "bar" ELSE Absent]}

\* the settings callers pass to Init and CtxOrSeed
CarrierSets ==
  { ZeroSettings,
    [File |-> "/var/log/clog.log", Format |-> FormatToJSON, Level |-> LevelError,
     SensitiveInfoHandling |-> MaskSensitiveInfo, OnlyLogDebugIfContainsLabel |-> << >>] }

\* the settings of the README's "Filtering Debug Logs", for the standard
\* output and for the default file
SetPool ==
  { [File |-> f, Format |-> FormatForHumans, Level |-> LevelDebug,
     SensitiveInfoHandling |-> "", OnlyLogDebugIfContainsLabel |-> << "clabel_api_call" >>]
    : f \in {Stdout, ""} }

\* the loggers callers pass to Seed
Seeds == {NilZsl, UserZsl}

\* the arguments of a With call: keys and values alternate
WithArgs ==
  UNION { { vs \in [1..n -> Keys \cup ArgVals] :
              \A i \in 1..n : IF i % 2 = 1 THEN vs[i] \in Keys ELSE vs[i] \in ArgVals }
          : n \in 0..MaxArgs }

\* the arguments of a Label call
LabelArgs == UNION { [1..n -> Labels] : n \in 0..MaxArgs }

\* no builder made yet
NoBuilders == [b \in BuilderIds |-> NoBuilder]

NoFrame ==
  [op |-> "", ctx |-> Background(NoCv), err |-> "none", set |-> ZeroSettings,
   cset |-> ZeroSettings, got |-> NoVal, bytes |-> "", opts |-> << >>]

\* the last call of the settings resolver: its argument (arg, use) and what
\* it returned (res, path), and the path the first call of
\* GetLogFileOrDefault("") returned; or the last call of Writer.Write and the
\* count it returned (n); or the last call of part_000's Ctx or CtxErr and
\* the logger it returned (out)
NoLast ==
  [op |-> "", arg |-> ZeroSettings, use |-> "", res |-> ZeroSettings, path |-> "",
   first |-> "", n |-> 0, out |-> Bare(NilZsl)]

\* the state before the first call into clog
InitWith(drafts, tvs, envs, cvs, helds, bldrs) ==
  /\ draft \in drafts
  /\ testV \in tvs
  /\ env \in envs
  /\ clock = 0
  /\ ResolvedLogFile = ""
  /\ cluesHasher = "unset"
  /\ singleMu = "free"
  /\ cloggerton = NoVal
  /\ pc = [p \in Procs |-> "idle"]
  /\ fr = [p \in Procs |-> NoFrame]
  /\ \E cv \in cvs : ctxs = {Background(cv)}
  /\ builders \in bldrs
  /\ wrappers = {}
  /\ sink = << >>
  /\ panicked = ""
  /\ built = << >>
  /\ returned = {}
  /\ held \in helds
  /\ last = NoLast

\* time passes
Tick ==
  /\ panicked = ""
  /\ clock < MaxClock
  /\ clock' = clock + 1
  /\ UNCHANGED << envVars, ResolvedLogFile, singleVars, ctxs, builderVars, sink,
                  panicked, settingsVars >>

\* ---------------------------------------------------------------------------
\* calls that resolve the singleton
\* ---------------------------------------------------------------------------

\* a goroutine enters a call and heads for singleton(set)
Enter(p, op, ctx, err, set, at) ==
  /\ pc' = [pc EXCEPT ![p] = at]
  /\ fr' = [fr EXCEPT ![p] = [NoFrame EXCEPT !.op = op, !.ctx = ctx, !.err = err,
                                             !.set = set]]
  /\ UNCHANGED << envVars, clock, ResolvedLogFile, cluesHasher, singleMu, cloggerton,
                  ctxs, builderVars, sink, panicked, built, returned, settingsVars >>

\* Init(ctx, set), up to its call of singleton(set)
CallInit(p, ctx, set) ==
  /\ panicked = "" /\ pc[p] = "idle"
  /\ Enter(p, "Init", ctx, "none", set, "lock")

\* the panic of a failed type assertion l.(*zap.SugaredLogger)
ConversionPanic ==
  "interface conversion: interface {} is *clog.clogger, not *zap.SugaredLogger"

\* the lowest builder slot that is free, 0 when there is none
FreeSlot ==
  IF \E b \in BuilderIds : ~builders[b].live
    THEN CHOOSE b \in BuilderIds : ~builders[b].live /\ \A c \in 1..(b - 1) : builders[c].live
    ELSE 0

\* the end of Ctx(ctx) and CtxErr(ctx, err): fromCtx asserts that the value l
\* it found is a *zap.SugaredLogger; then part_000 returns the logger with
\* the fields attached, and builder.go's newBuilder makes the builder
FinishCtx(p, op, ctx, err, l) ==
  /\ pc' = [pc EXCEPT ![p] = "idle"]
  /\ fr' = [fr EXCEPT ![p] = NoFrame]
  /\ IF ~IsZsl(l)
       THEN /\ panicked' = ConversionPanic
            /\ UNCHANGED << builders, settingsVars >>
       ELSE IF draft = "zsl"
         THEN /\ \E o \in KeyOrders :
                   last' = [NoLast EXCEPT
                              !.op = op,
                              !.out = IF op = "CtxErr" THEN CtxErrZsl(ctx, err, l.zsl, o)
                                                       ELSE CtxZsl(ctx, l.zsl, o)]
              /\ UNCHANGED << builders, panicked, held >>
         \* builder.go; no context of src/settings.go holds a
         \* *zap.SugaredLogger, so that the assertion fails before this
         ELSE /\ FreeSlot # 0
              /\ builders' = [builders EXCEPT ![FreeSlot] =
                                IF op = "CtxErr" THEN CtxErr(ctx, err, l.zsl)
                                                 ELSE newBuilder(ctx, l.zsl)]
              /\ UNCHANGED << panicked, settingsVars >>
  /\ UNCHANGED << envVars, clock, ResolvedLogFile, cluesHasher, singleMu, cloggerton,
                  ctxs, wrappers, sink, built, returned >>

\* Ctx(ctx) -> fromCtx(ctx), through newBuilder(ctx) in builder.go: with no
\* logger in the context it goes on to evaluate Settings{}.EnsureDefaults()
\* and to call singleton
CallCtx(p, ctx) ==
  /\ panicked = "" /\ pc[p] = "idle"
  /\ IF Value(ctx).type = "nil"
       THEN Enter(p, "Ctx", ctx, "none", ZeroSettings, "ed_read")
       ELSE FinishCtx(p, "Ctx", ctx, "none", Value(ctx))

\* CtxErr(ctx, err)
CallCtxErr(p, ctx, err) ==
  /\ panicked = "" /\ pc[p] = "idle"
  /\ IF Value(ctx).type = "nil"
       THEN Enter(p, "CtxErr", ctx, err, ZeroSettings, "ed_read")
       ELSE FinishCtx(p, "CtxErr", ctx, err, Value(ctx))

\* the end of Flush(ctx): fromCtx asserts that the value l it found is a
\* *zap.SugaredLogger; what Ctx(ctx) returns is dropped after Sync()
FinishFlush(p, l) ==
  /\ pc' = [pc EXCEPT ![p] = "idle"]
  /\ fr' = [fr EXCEPT ![p] = NoFrame]
  /\ panicked' = IF IsZsl(l) THEN "" ELSE ConversionPanic
  /\ UNCHANGED << envVars, clock, ResolvedLogFile, cluesHasher, singleMu, cloggerton,
                  ctxs, builderVars, sink, built, returned, settingsVars >>

\* Flush(ctx) -> Ctx(ctx) -> fromCtx(ctx)
CallFlush(p, ctx) ==
  /\ panicked = "" /\ pc[p] = "idle"
  /\ IF Value(ctx).type = "nil"
       THEN Enter(p, "Flush", ctx, "none", ZeroSettings, "ed_read")
       ELSE FinishFlush(p, Value(ctx))

\* CtxOrSeed(ctx, logger, set), of part_000 only: with no logger in the
\* context it calls singleton(set), else it returns the context and its
\* logger; the code never reads its argument logger
CallCtxOrSeed(p, ctx, set) ==
  /\ panicked = "" /\ pc[p] = "idle" /\ draft = "zsl"
  /\ IF Value(ctx).type = "nil"
       THEN Enter(p, "CtxOrSeed", ctx, "none", set, "lock")
       ELSE UNCHANGED vars

\* Seed(ctx, seed)
CallSeed(ctx, seed) ==
  /\ panicked = ""
  /\ LET out == IF draft = "clogger" THEN Seed(ctx, seed) ELSE SeedZsl(ctx, seed)
     IN ctxs' = ctxs \cup {out}
  /\ UNCHANGED << envVars, clock, ResolvedLogFile, singleVars, builderVars, sink,
                  panicked, settingsVars >>

\* Settings{}.EnsureDefaults() in fromCtx, outside of the mutex: the enums and
\* the call of GetLogFileOrDefault("")
EdRead(p) ==
  /\ panicked = "" /\ pc[p] = "ed_read"
  /\ \E mkdirOk \in BOOLEAN :
       fr' = [fr EXCEPT ![p].set =
                EnsureDefaults(fr[p].set, ResolvedLogFile, env, clock, mkdirOk).set]
  /\ pc' = [pc EXCEPT ![p] = "ed_write"]
  /\ UNCHANGED << envVars, clock, ResolvedLogFile, cluesHasher, singleMu, cloggerton,
                  ctxs, builderVars, sink, panicked, built, returned, settingsVars >>

\* ... and its assignment ResolvedLogFile = set.File
EdWrite(p) ==
  /\ panicked = "" /\ pc[p] = "ed_write"
  /\ ResolvedLogFile' = fr[p].set.File
  /\ pc' = [pc EXCEPT ![p] = "lock"]
  /\ UNCHANGED << envVars, clock, cluesHasher, singleMu, cloggerton, fr,
                  ctxs, builderVars, sink, panicked, built, returned, settingsVars >>

\* whether singleMu.Lock() may proceed
MutexFreeAlways(mu) == TRUE

MutexFree(mu) == mu = "free"

\* singleton: singleMu.Lock()
Lock(p) ==
  /\ panicked = "" /\ pc[p] = "lock"
  /\ MutexFree(singleMu)
  /\ singleMu' = p
  /\ pc' = [pc EXCEPT ![p] = "check"]
  /\ UNCHANGED << envVars, clock, ResolvedLogFile, cluesHasher, cloggerton, fr,
                  ctxs, builderVars, sink, panicked, built, returned, settingsVars >>

\* singleton: whether the singleton exists already
singletonExists(ton) == ton.type # "nil"

\* singleton: the check; the singleton exists and is returned
CheckHit(p) ==
  /\ panicked = "" /\ pc[p] = "check"
  /\ singletonExists(cloggerton)
  /\ fr' = [fr EXCEPT ![p].got = cloggerton]
  /\ pc' = [pc EXCEPT ![p] = "unlock"]
  /\ UNCHANGED << envVars, clock, ResolvedLogFile, cluesHasher, singleMu, cloggerton,
                  ctxs, builderVars, sink, panicked, built, returned, settingsVars >>

\* singleton: the check; there is none, and set.EnsureDefaults() runs: the
\* enums and, for settings without a File, the call of GetLogFileOrDefault("")
\* that reads ResolvedLogFile
CheckMiss(p) ==
  /\ panicked = "" /\ pc[p] = "check"
  /\ ~singletonExists(cloggerton)
  /\ Len(built) < MaxBuilt
  /\ \E mkdirOk \in BOOLEAN :
       fr' = [fr EXCEPT ![p].cset =
                EnsureDefaults(fr[p].set, ResolvedLogFile, env, clock, mkdirOk).set]
  /\ pc' = [pc EXCEPT ![p] = IF fr[p].set.File = "" THEN "cs_write" ELSE "gen"]
  /\ UNCHANGED << envVars, clock, ResolvedLogFile, cluesHasher, singleMu, cloggerton,
                  ctxs, builderVars, sink, panicked, built, returned, settingsVars >>

\* ... and its assignment ResolvedLogFile = set.File, which the mutex does
\* not keep apart from the reads and writes of fromCtx's EnsureDefaults
CsWrite(p) ==
  /\ panicked = "" /\ pc[p] = "cs_write"
  /\ ResolvedLogFile' = fr[p].cset.File
  /\ pc' = [pc EXCEPT ![p] = "gen"]
  /\ UNCHANGED << envVars, clock, cluesHasher, singleMu, cloggerton, fr,
                  ctxs, builderVars, sink, panicked, built, returned, settingsVars >>

\* singleton: setCluesSecretsHash, genLogger and the assignment of the singleton
Gen(p) ==
  /\ panicked = "" /\ pc[p] = "gen"
  /\ \E buildOk \in (IF fr[p].cset.File \in {Stdout, Stderr} THEN {TRUE} ELSE BOOLEAN) :
       LET zsl == genLogger(fr[p].cset, testV, buildOk, Len(built) + 1)
           ton == IF draft = "clogger" THEN CloggerVal(zsl, fr[p].cset) ELSE ZslVal(zsl)
       IN /\ cloggerton' = ton
          /\ built' = Append(built, [p |-> p, arg |-> fr[p].set, set |-> fr[p].cset,
                                     zsl |-> zsl])
          /\ fr' = [fr EXCEPT ![p].got = ton]
  /\ cluesHasher' = fr[p].cset.SensitiveInfoHandling
  /\ pc' = [pc EXCEPT ![p] = "unlock"]
  /\ UNCHANGED << envVars, clock, ResolvedLogFile, singleMu,
                  ctxs, builderVars, sink, panicked, returned, settingsVars >>

\* singleton: the deferred singleMu.Unlock() and the return
Unlock(p) ==
  /\ panicked = "" /\ pc[p] = "unlock"
  /\ singleMu' = "free"
  /\ returned' = returned \cup {fr[p].got}
  /\ pc' = [pc EXCEPT ![p] = "ret"]
  /\ UNCHANGED << envVars, clock, ResolvedLogFile, cluesHasher, cloggerton, fr,
                  ctxs, builderVars, sink, panicked, built, settingsVars >>

\* the record of Init's zsl.Debugw("seeding logger", "logger_settings", set)
seedingRecord(zsl) ==
  [lvl |-> lvlDebug, msg |-> "seeding logger", zsl |-> zsl.id,
   fields |-> << [k |-> "logger_settings", v |-> "", s |-> {}] >>,
   written |-> Enabled(zsl, lvlDebug)]

\* Init, after singleton(set) has returned: the debug record, the context
\* with the logger planted in it, and the logger
RetInit(p) ==
  /\ panicked = "" /\ pc[p] = "ret" /\ fr[p].op = "Init"
  /\ Len(sink) < MaxSink
  /\ LET zsl == fr[p].got.zsl
         out == IF draft = "clogger" THEN plantLoggerInCtx(fr[p].ctx, fr[p].got)
                                     ELSE embedIntoCtx(fr[p].ctx, zsl)
     IN /\ sink' = Append(sink, seedingRecord(zsl))
        /\ ctxs' = ctxs \cup {out}
  /\ pc' = [pc EXCEPT ![p] = "idle"]
  /\ fr' = [fr EXCEPT ![p] = NoFrame]
  /\ UNCHANGED << envVars, clock, ResolvedLogFile, cluesHasher, singleMu, cloggerton,
                  builderVars, panicked, built, returned, settingsVars >>

\* CtxOrSeed, after singleton(set) has returned
RetCtxOrSeed(p) ==
  /\ panicked = "" /\ pc[p] = "ret" /\ fr[p].op = "CtxOrSeed"
  /\ LET zsl == fr[p].got.zsl
         out == embedIntoCtx(fr[p].ctx, zsl)
     IN ctxs' = ctxs \cup {out}
  /\ pc' = [pc EXCEPT ![p] = "idle"]
  /\ fr' = [fr EXCEPT ![p] = NoFrame]
  /\ UNCHANGED << envVars, clock, ResolvedLogFile, cluesHasher, singleMu, cloggerton,
                  builderVars, sink, panicked, built, returned, settingsVars >>

\* fromCtx, after singleton(Settings{}.EnsureDefaults()) has returned
RetFromCtx(p) ==
  /\ panicked = "" /\ pc[p] = "ret" /\ fr[p].op \in {"Ctx", "CtxErr"}
  /\ FinishCtx(p, fr[p].op, fr[p].ctx, fr[p].err, fr[p].got)

\* Flush, after fromCtx's call of singleton has returned
RetFlush(p) ==
  /\ panicked = "" /\ pc[p] = "ret" /\ fr[p].op = "Flush"
  /\ FinishFlush(p, fr[p].got)

\* ---------------------------------------------------------------------------
\* calls on a builder
\* ---------------------------------------------------------------------------

NilMapPanic == "assignment to entry in nil map"

\* the state a mutator leaves, given what it returned: the pointer receiver
\* b is the one builder it writes
Mutated(b, r) ==
  /\ builders' = [builders EXCEPT ![b] = r.b]
  /\ panicked' = IF r.panic THEN NilMapPanic ELSE ""
  /\ UNCHANGED << envVars, clock, ResolvedLogFile, singleVars, ctxs, wrappers, sink,
                  settingsVars >>

CallErr(b, err) ==
  /\ panicked = "" /\ builders[b].live
  /\ Mutated(b, Err(builders[b], err))

CallWith(b, vs) ==
  /\ panicked = "" /\ builders[b].live
  /\ Mutated(b, With(builders[b], vs))

CallLabel(b, ls) ==
  /\ panicked = "" /\ builders[b].live
  /\ Mutated(b, Label(builders[b], ls))

CallComment(b, cmnt) ==
  /\ panicked = "" /\ builders[b].live
  /\ Mutated(b, Comment(builders[b], cmnt))

\* a terminal call: log(l, msg) hands one record to the builder's logger; the
\* value receiver and the fresh map of clues.In(ctx).Map() leave the builder
\* and its context as they were
Emit(b, l) ==
  /\ panicked = "" /\ builders[b].live
  /\ Len(sink) < MaxSink
  /\ \E o1, o2 \in KeyOrders :
       sink' = Append(sink, log(builders[b], l, "m", o1, o2))
  /\ UNCHANGED << envVars, clock, ResolvedLogFile, singleVars, ctxs, builderVars,
                  panicked, settingsVars >>

\* Debug(msg), Info(msg), Error(msg)
CallDebug(b) == Emit(b, lvlDebug)

CallInfo(b) == Emit(b, lvlInfo)

CallError(b) == Emit(b, lvlError)

\* ---------------------------------------------------------------------------
\* Writer (src/builder.go:173-181, src/unnamed/part_000:303-310)
\* ---------------------------------------------------------------------------

\* the byte sequences handed to Write, as the strings string(p) makes of them
Payloads == {"", "h", "hi"}

\* the end of Writer.Write(p): in Ctx(w.Ctx), fromCtx asserts that the value
\* l it found is a *zap.SugaredLogger; then part_000 hands string(p) to the
\* Info of the logger with the context's fields, and builder.go to the log
\* of a new builder; len(p) is returned
FinishWrite(p, ctx, bytes, l) ==
  /\ pc' = [pc EXCEPT ![p] = "idle"]
  /\ fr' = [fr EXCEPT ![p] = NoFrame]
  /\ IF ~IsZsl(l)
       THEN /\ panicked' = ConversionPanic
            /\ UNCHANGED << sink, settingsVars >>
       ELSE /\ Len(sink) < MaxSink
            /\ \E o1, o2 \in KeyOrders :
                 sink' = Append(sink,
                           IF draft = "zsl"
                             THEN Record(CtxZsl(ctx, l.zsl, o1), lvlInfo, bytes)
                             ELSE log(newBuilder(ctx, l.zsl), lvlInfo, bytes, o1, o2))
            /\ last' = [NoLast EXCEPT !.op = "Write", !.n = Len(bytes)]
            /\ UNCHANGED << panicked, held >>
  /\ UNCHANGED << envVars, clock, ResolvedLogFile, cluesHasher, singleMu, cloggerton,
                  ctxs, builderVars, built, returned >>

\* Writer{Ctx: ctx}.Write(p): with no logger in the context fromCtx goes on
\* to evaluate Settings{}.EnsureDefaults() and to call singleton
CallWrite(p, ctx, bytes) ==
  /\ panicked = "" /\ pc[p] = "idle"
  /\ IF Value(ctx).type = "nil"
       THEN /\ pc' = [pc EXCEPT ![p] = "ed_read"]
            /\ fr' = [fr EXCEPT ![p] = [NoFrame EXCEPT !.op = "Write", !.ctx = ctx,
                                                       !.bytes = bytes]]
            /\ UNCHANGED << envVars, clock, ResolvedLogFile, cluesHasher, singleMu,
                            cloggerton, ctxs, builderVars, sink, panicked, built,
                            returned, settingsVars >>
       ELSE FinishWrite(p, ctx, bytes, Value(ctx))

\* Write, after fromCtx's call of singleton has returned
RetWrite(p) ==
  /\ panicked = "" /\ pc[p] = "ret" /\ fr[p].op = "Write"
  /\ FinishWrite(p, fr[p].ctx, fr[p].bytes, fr[p].got)

\* ---------------------------------------------------------------------------
\* wrapper (src/unnamed/part_000:240-294)
\* ---------------------------------------------------------------------------

\* the panic of *zsl for a nil zsl
NilDerefPanic == "invalid memory address or nil pointer dereference"

\* Wrap(zsl, opts...)
CallWrap(zsl, opts) ==
  /\ panicked = "" /\ draft = "zsl"
  /\ IF zsl = NilZsl
       THEN /\ panicked' = NilDerefPanic
            /\ UNCHANGED wrappers
       ELSE /\ wrappers' = wrappers \cup {Wrap(Bare(zsl), opts)}
            /\ UNCHANGED panicked
  /\ UNCHANGED << envVars, clock, ResolvedLogFile, singleVars, ctxs, builders, sink,
                  settingsVars >>

\* the end of WrapCtx(ctx, opts...): Ctx(ctx) has the logger of the context
\* with the context's fields, and Wrap wraps it
FinishWrapCtx(p, ctx, opts, l) ==
  /\ pc' = [pc EXCEPT ![p] = "idle"]
  /\ fr' = [fr EXCEPT ![p] = NoFrame]
  /\ \E o \in KeyOrders : wrappers' = wrappers \cup {Wrap(CtxZsl(ctx, l.zsl, o), opts)}
  /\ UNCHANGED << envVars, clock, ResolvedLogFile, cluesHasher, singleMu, cloggerton,
                  ctxs, builders, sink, panicked, built, returned, settingsVars >>

\* WrapCtx(ctx, opts...) -> Ctx(ctx) -> fromCtx(ctx)
CallWrapCtx(p, ctx, opts) ==
  /\ panicked = "" /\ pc[p] = "idle" /\ draft = "zsl"
  /\ IF Value(ctx).type = "nil"
       THEN /\ pc' = [pc EXCEPT ![p] = "ed_read"]
            /\ fr' = [fr EXCEPT ![p] = [NoFrame EXCEPT !.op = "WrapCtx", !.ctx = ctx,
                                                       !.opts = opts]]
            /\ UNCHANGED << envVars, clock, ResolvedLogFile, cluesHasher, singleMu,
                            cloggerton, ctxs, builderVars, sink, panicked, built,
                            returned, settingsVars >>
       ELSE FinishWrapCtx(p, ctx, opts, Value(ctx))

\* WrapCtx, after fromCtx's call of singleton has returned
RetWrapCtx(p) ==
  /\ panicked = "" /\ pc[p] = "ret" /\ fr[p].op = "WrapCtx"
  /\ FinishWrapCtx(p, fr[p].ctx, fr[p].opts, fr[p].got)

\* a call on a wrapper hands its record to the wrapper's logger
Handed(r) ==
  /\ Len(sink) < MaxSink
  /\ sink' = Append(sink, r)
  /\ UNCHANGED << envVars, clock, ResolvedLogFile, singleVars, ctxs, builderVars,
                  panicked, settingsVars >>

\* w.Logf("m")
CallLogf(w) ==
  /\ panicked = "" /\ w \in wrappers
  /\ Handed(Logf(w, "m"))

\* w.Errorf("m")
CallErrorf(w) ==
  /\ panicked = "" /\ w \in wrappers
  /\ Handed(Errorf(w, "m"))

\* ---------------------------------------------------------------------------
\* the program: goroutines calling into clog
\* ---------------------------------------------------------------------------

\* the steps of fromCtx and singleton, for the goroutines P
Steps(P) ==
  \/ \E p \in P : EdRead(p)
  \/ \E p \in P : EdWrite(p)
  \/ \E p \in P : Lock(p)
  \/ \E p \in P : CheckHit(p)
  \/ \E p \in P : CheckMiss(p)
  \/ \E p \in P : CsWrite(p)
  \/ \E p \in P : Gen(p)
  \/ \E p \in P : Unlock(p)

\* goroutines resolving the singleton concurrently, through Init, CtxOrSeed
\* and fromCtx (Flush makes a builder, which calls fromCtx, and drops it)
Next ==
  \/ \E p \in Procs, ctx \in ctxs, set \in CarrierSets : CallInit(p, ctx, set)
  \/ \E p \in Procs, ctx \in ctxs, set \in CarrierSets : CallCtxOrSeed(p, ctx, set)
  \/ \E ctx \in ctxs, seed \in Seeds : CallSeed(ctx, seed)
  \/ \E p \in Procs, ctx \in ctxs : CallFlush(p, ctx)
  \/ Steps(Procs)
  \/ \E p \in Procs : RetInit(p)
  \/ \E p \in Procs : RetCtxOrSeed(p)
  \/ \E p \in Procs : RetFlush(p)

Init ==
  /\ InitWith(Drafts, {FALSE}, {""}, {NoCv}, {ZeroSettings}, {NoBuilders})

Spec == Init /\ [][Next]_vars

\* goroutines resolving the log file concurrently while time passes: Init
\* with Settings{} and fromCtx (through Flush) both reach EnsureDefaults
NextResolved ==
  \/ Tick
  \/ \E p \in Procs, ctx \in ctxs : CallInit(p, ctx, ZeroSettings)
  \/ \E p \in Procs, ctx \in ctxs : CallFlush(p, ctx)
  \/ Steps(Procs)
  \/ \E p \in Procs : RetInit(p)
  \/ \E p \in Procs : RetFlush(p)

SpecResolved == Init /\ [][NextResolved]_vars

\* one goroutine retrieving the logger of a context and writing through a
\* Writer, in either draft
InitWriter ==
  /\ InitWith(Drafts, {FALSE}, {""}, RootCvs, {ZeroSettings}, {NoBuilders})

NextWriter ==
  \/ \E ctx \in ctxs, set \in SetPool : CallInit("p1", ctx, set)
  \/ \E ctx \in ctxs, seed \in Seeds : CallSeed(ctx, seed)
  \/ \E ctx \in ctxs : CallCtx("p1", ctx)
  \/ \E ctx \in ctxs, err \in Errs : CallCtxErr("p1", ctx, err)
  \/ \E ctx \in ctxs, bytes \in Payloads : CallWrite("p1", ctx, bytes)
  \/ Steps({"p1"})
  \/ RetInit("p1")
  \/ RetFromCtx("p1")
  \/ RetWrite("p1")

SpecWriter == InitWriter /\ [][NextWriter]_vars

\* the settings of every level and format, for the standard output and for
\* the default file
LevelSettings ==
  [File : {Stdout, ""}, Format : {FormatForHumans, FormatToJSON},
   Level : {LevelDebug, LevelInfo, LevelError, LevelDisabled},
   SensitiveInfoHandling : {""}, OnlyLogDebugIfContainsLabel : {<< >>}]

\* one goroutine that seeds the logger with the settings it holds and hands
\* it records of every level, with and without --test.v=true: the record of
\* Init and, in part_000, those of Writer.Write and of the wrapper
InitLevels ==
  /\ InitWith(Drafts, BOOLEAN, {""}, {NoCv}, LevelSettings, {NoBuilders})

NextLevels ==
  \/ \E ctx \in ctxs : CallInit("p1", ctx, held)
  \/ \E ctx \in ctxs : CallWrite("p1", ctx, "hi")
  \/ \E ctx \in ctxs, opts \in Options : CallWrapCtx("p1", ctx, opts)
  \/ \E ctx \in ctxs, opts \in Options : CallWrap(Value(ctx).zsl, opts)
  \/ Steps({"p1"})
  \/ RetInit("p1")
  \/ RetWrite("p1")
  \/ RetWrapCtx("p1")
  \/ \E w \in wrappers : CallLogf(w)
  \/ \E w \in wrappers : CallErrorf(w)

SpecLevels == InitLevels /\ [][NextLevels]_vars

\* ---------------------------------------------------------------------------
\* callers of the settings resolver
\* ---------------------------------------------------------------------------

\* values callers give the fields of Settings: the valid ones, none, and one
\* that is not valid
LevelInputs == {"", LevelDebug, LevelInfo, LevelError, LevelDisabled, "warn"}
FormatInputs == {"", FormatForHumans, FormatToJSON, "xml"}
HandlingInputs ==
  {"", ShowSensitiveInfoInPlainText, MaskSensitiveInfo, HashSensitiveInfo, "rot13"}
FileInputs == {"", "-", "/var/log/clog.log"}
EnvFiles == {"", "-", "/tmp/clog.log"}

AllSettings ==
  [File : FileInputs, Format : FormatInputs, Level : LevelInputs,
   SensitiveInfoHandling : HandlingInputs, OnlyLogDebugIfContainsLabel : {<< >>}]

\* settings that differ in their File only
FileSettings == {s \in AllSettings : s.Format = "" /\ s.Level = "" /\ s.SensitiveInfoHandling = ""}

\* the caller takes up a Settings value
Hold(s) ==
  /\ panicked = ""
  /\ held # s
  /\ held' = s
  /\ last' = [NoLast EXCEPT !.first = last.first]
  /\ UNCHANGED << envVars, clock, ResolvedLogFile, singleVars, ctxs, builderVars, sink,
                  panicked >>

\* set = set.EnsureDefaults()
CallEnsureDefaults ==
  /\ panicked = ""
  /\ \E mkdirOk \in BOOLEAN :
       LET ed == EnsureDefaults(held, ResolvedLogFile, env, clock, mkdirOk)
       IN /\ ResolvedLogFile' = ed.rlf
          /\ held' = ed.set
          /\ last' = [NoLast EXCEPT !.op = "EnsureDefaults", !.arg = held, !.res = ed.set,
                                    !.first = last.first]
  /\ UNCHANGED << envVars, clock, singleVars, ctxs, builderVars, sink, panicked >>

\* GetLogFileOrDefault(useThisFile)
CallGetLogFileOrDefault(useThisFile) ==
  /\ panicked = ""
  /\ \E mkdirOk \in BOOLEAN :
       LET path == GetLogFileOrDefault(useThisFile, ResolvedLogFile, env, clock, mkdirOk)
       IN last' = [NoLast EXCEPT !.op = "GetLogFileOrDefault", !.use = useThisFile,
                                 !.path = path,
                                 !.first = IF useThisFile = "" /\ last.first = ""
                                             THEN path ELSE last.first]
  /\ UNCHANGED << envVars, clock, ResolvedLogFile, singleVars, ctxs, builderVars, sink,
                  panicked, held >>

\* os.Setenv("CLOG_FILE", e)
Setenv(e) ==
  /\ panicked = ""
  /\ env # e
  /\ env' = e
  /\ UNCHANGED << draft, testV, clock, ResolvedLogFile, singleVars, ctxs, builderVars,
                  sink, panicked, settingsVars >>

\* a caller normalising the settings it holds
InitDefaults ==
  /\ InitWith({"clogger"}, {FALSE}, EnvFiles, {NoCv}, {ZeroSettings}, {NoBuilders})

NextDefaults ==
  \/ \E s \in AllSettings : Hold(s)
  \/ CallEnsureDefaults

SpecDefaults == InitDefaults /\ [][NextDefaults]_vars

\* a caller resolving the log file while time passes and the environment
\* changes
InitLogFile ==
  /\ InitWith({"clogger"}, {FALSE}, {""}, {NoCv}, {ZeroSettings}, {NoBuilders})

NextLogFile ==
  \/ Tick
  \/ \E e \in EnvFiles : Setenv(e)
  \/ \E s \in FileSettings : Hold(s)
  \/ CallEnsureDefaults
  \/ \E useThisFile \in FileInputs : CallGetLogFileOrDefault(useThisFile)

SpecLogFile == InitLogFile /\ [][NextLogFile]_vars

\* ---------------------------------------------------------------------------
\* the draft of src/settings.go with the builder of src/builder.go
\* ---------------------------------------------------------------------------

\* no builder exists before the first call of Ctx or CtxErr
InitBuilder ==
  /\ InitWith({"clogger"}, {FALSE}, {""}, RootCvs, {ZeroSettings}, {NoBuilders})

\* the calls that lead to a builder: Init, Seed, Ctx and CtxErr
NextBuilder ==
  \/ \E p \in Procs, ctx \in ctxs, set \in SetPool : CallInit(p, ctx, set)
  \/ \E ctx \in ctxs, seed \in Seeds : CallSeed(ctx, seed)
  \/ \E p \in Procs, ctx \in ctxs : CallCtx(p, ctx)
  \/ \E p \in Procs, ctx \in ctxs, err \in Errs : CallCtxErr(p, ctx, err)
  \/ Steps(Procs)
  \/ \E p \in Procs : RetInit(p)
  \/ \E p \in Procs : RetFromCtx(p)

SpecBuilder == InitBuilder /\ [][NextBuilder]_vars

\* ... and the calls on the builders they return
NextClogger ==
  \/ NextBuilder
  \/ \E b \in BuilderIds, err \in Errs : CallErr(b, err)
  \/ \E b \in BuilderIds, vs \in WithArgs : CallWith(b, vs)
  \/ \E b \in BuilderIds, ls \in LabelArgs : CallLabel(b, ls)
  \/ \E b \in BuilderIds, cmnt \in Comments : CallComment(b, cmnt)
  \/ \E b \in BuilderIds : CallDebug(b)
  \/ \E b \in BuilderIds : CallInfo(b)
  \/ \E b \in BuilderIds : CallError(b)

SpecClogger == InitBuilder /\ [][NextClogger]_vars

\* ---------------------------------------------------------------------------
\* properties
\* ---------------------------------------------------------------------------

\* the value a record carries for a key: that of the last field attached
\* under the key, Absent when there is none
FieldValue(fields, k) ==
  LET idx == {i \in DOMAIN fields : fields[i].k = k}
  IN IF idx = {} THEN Absent ELSE fields[CHOOSE i \in idx : \A j \in idx : j <= i].v

\* the collection a record carries under a key
FieldSet(fields, k) ==
  UNION {fields[i].s : i \in {j \in DOMAIN fields : fields[j].k = k}}

\* the builder b comes into being in this step
Made(b) == ~builders[b].live /\ builders'[b].live

\* a call of Ctx or CtxErr comes to its end: with a logger in the context, or
\* after singleton has returned
CtxEnds(p) ==
  \/ \E ctx \in ctxs :
       /\ Value(ctx).type # "nil"
       /\ (CallCtx(p, ctx) \/ \E err \in Errs : CallCtxErr(p, ctx, err))
  \/ RetFromCtx(p)

\* every call of Ctx and CtxErr returns, with a builder of which P holds
CtxGives(P(_)) ==
  \A p \in Procs :
    CtxEnds(p) => /\ panicked' = ""
                  /\ \E b \in BuilderIds : Made(b) /\ P(b)

Levels == {lvlDebug, lvlInfo, lvlError}

\* the value the most specific source gives the key k: With, else the
\* builder's error, else the context
Wanted(bld, k) ==
  IF bld.with.m[k] # Absent THEN bld.with.m[k]
  ELSE IF bld.err # "none" /\ InErrMap(bld.err)[k] # Absent
    THEN InErrMap(bld.err)[k]
    ELSE InMap(bld.ctx)[k]

\* the record of a terminal call on the new builder b, after With(vs...),
\* carries for every key the value of the most specific source
MergesBySource(b) ==
  \A vs \in WithArgs, l \in Levels, o1, o2 \in KeyOrders, k \in Keys :
    LET r == With(builders'[b], vs)
    IN /\ ~r.panic
       /\ FieldValue(log(r.b, l, "m", o1, o2).fields, k) = Wanted(r.b, k)

\* C1: Ctx and CtxErr return a builder, and in every record a terminal call
\* on it emits, a key's value is the one given by With if With holds the key,
\* else the one of the error's metadata if the builder has an error that
\* carries the key, else the one of the context's metadata (SpecBuilder)
C1_MergePrecedence == [][CtxGives(MergesBySource)]_vars

\* C2: the singleton is constructed at most once, from the settings of the
\* call that constructed it, and every call of singleton returns that one
\* instance, whatever settings it passed (Spec)
C2_SingletonOnce ==
  /\ Len(built) <= 1
  /\ (returned # {} \/ cloggerton.type # "nil") => Len(built) = 1
  /\ Len(built) = 1 =>
       LET c == built[1]
           e == EnsureEnums(c.arg)
       IN /\ \A v \in returned : v.type # "nil" /\ v.zsl = c.zsl
          /\ cloggerton.type # "nil" => cloggerton.zsl = c.zsl
          /\ \A p \in Procs : pc[p] \in {"unlock", "ret"} => fr[p].got.zsl = c.zsl
          /\ c.set.Level = e.Level /\ c.set.Format = e.Format
          /\ c.set.SensitiveInfoHandling = e.SensitiveInfoHandling
          /\ c.arg.File # "" => c.set.File = c.arg.File
          /\ \E buildOk \in BOOLEAN : c.zsl = genLogger(c.set, testV, buildOk, 1)

\* a call that passed other settings than the constructing call has returned
\* from singleton, with the instance the other call constructed
C2_Witness ==
  /\ Len(built) = 1
  /\ \E p \in Procs :
       /\ pc[p] = "ret" /\ p # built[1].p
       /\ fr[p].set # built[1].arg
       /\ EnsureEnums(fr[p].set).Level # built[1].set.Level
       /\ fr[p].got = cloggerton
       /\ fr[p].got.zsl = built[1].zsl

\* the new builder b is empty, and every mutator returns from it
FreshAndSafe(b) ==
  LET bld == builders'[b]
  IN /\ \A k \in Keys : bld.with.m[k] = Absent
     /\ bld.labels.s = {} /\ bld.comments.s = {}
     /\ (\E p \in Procs : fr[p].op = "Ctx" /\ RetFromCtx(p)) => bld.err = "none"
     /\ \A err \in Errs : ~Err(bld, err).panic
     /\ \A vs \in WithArgs : ~With(bld, vs).panic
     /\ \A ls \in LabelArgs : ~Label(bld, ls).panic
     /\ \A cmnt \in Comments : ~Comment(bld, cmnt).panic

\* C3: Ctx and CtxErr return a builder that has no With values, no labels
\* and no comments (and, from Ctx, no error), and no mutator call on it
\* panics, whatever its arguments (SpecBuilder)
C3_FreshAndSafe == [][CtxGives(FreshAndSafe)]_vars

\* the new builder b is a builder of its own: the builders held before are
\* left as they were, and a mutator writes neither context nor logger
Independent(b) ==
  /\ \A c \in BuilderIds \ {b} : builders'[c] = builders[c]
  /\ \A vs \in WithArgs :
       LET r == With(builders'[b], vs)
       IN ~r.panic /\ r.b.ctx = builders'[b].ctx /\ r.b.zsl = builders'[b].zsl

\* C4: Ctx and CtxErr return, for the same context, builders that share no
\* state: making and mutating one leaves every other as it was (SpecBuilder)
C4_Independent == [][CtxGives(Independent)]_vars

\* the value With(vs...) leaves for the key k: that of the last pair with the
\* key, the nil value for an unpaired last key, old when no pair has the key
LastPair(vs, k, old) ==
  LET idx == {i \in DOMAIN vs : i % 2 = 1 /\ vs[i] = k}
      i == CHOOSE x \in idx : \A y \in idx : y <= x
  IN IF idx = {} THEN old
     ELSE IF i + 1 <= Len(vs) THEN vs[i + 1] ELSE NilValue

\* With(vs...) on the new builder b stores every pair
WithPairs(b) ==
  \A vs \in WithArgs :
    LET bld == builders'[b]
        r == With(bld, vs)
    IN /\ ~r.panic
       /\ \A k \in Keys : r.b.with.m[k] = LastPair(vs, k, bld.with.m[k])
       /\ Len(vs) = 0 => r.b = bld

\* C5: on the builder Ctx and CtxErr return, With(vs...) stores every pair
\* of its arguments, the last pair of a key winning and an unpaired last key
\* getting the nil value; with no arguments it changes nothing (SpecBuilder)
C5_WithPairs == [][CtxGives(WithPairs)]_vars

\* Label(ls...) and Comment(c) on the new builder b are set insertions
LabelCommentSets(b) ==
  LET bld == builders'[b]
  IN /\ \A ls \in LabelArgs :
          LET r == Label(bld, ls)
          IN /\ ~r.panic
             /\ r.b.labels.s = bld.labels.s \cup {ls[i] : i \in DOMAIN ls}
             /\ Label(r.b, ls).b = r.b
     /\ \A cmnt \in Comments :
          LET r == Comment(bld, cmnt)
          IN /\ ~r.panic
             /\ r.b.comments.s = bld.comments.s \cup {cmnt}
             /\ Comment(r.b, cmnt).b = r.b

\* C6: on the builder Ctx and CtxErr return, Label(ls...) and Comment(c) add
\* their arguments to the builder's sets of labels and comments: what was
\* there stays, and a value given twice is held once (SpecBuilder)
C6_LabelCommentSets == [][CtxGives(LabelCommentSets)]_vars

\* the labels OnlyLogDebugIfContainsLabel names
FilterLabels(set) ==
  {set.OnlyLogDebugIfContainsLabel[i] : i \in DOMAIN set.OnlyLogDebugIfContainsLabel}

\* a Debug call on the new builder b, which has none of the labels the
\* singleton's settings name, has no record written
DebugFilter(b) ==
  (/\ cloggerton'.type # "nil"
   /\ FilterLabels(cloggerton'.set) # {}
   /\ builders'[b].labels.s \cap FilterLabels(cloggerton'.set) = {})
    => \A o1, o2 \in KeyOrders : ~log(builders'[b], lvlDebug, "m", o1, o2).written

\* C7: Ctx and CtxErr return a builder, and when the settings the singleton
\* holds name labels in OnlyLogDebugIfContainsLabel, a Debug call of a builder
\* that has none of these labels has no record written (SpecBuilder)
C7_DebugFilter == [][CtxGives(DebugFilter)]_vars

ValidLevels == {LevelDisabled, LevelDebug, LevelInfo, LevelError}
ValidFormats == {FormatForHumans, FormatToJSON}
ValidHandlings == {ShowSensitiveInfoInPlainText, MaskSensitiveInfo, HashSensitiveInfo}

\* C8: what EnsureDefaults returns has a valid Level, Format and
\* SensitiveInfoHandling and a File that is not empty; a valid value of the
\* argument is kept, any other becomes info, human, plaintext; and
\* EnsureDefaults returns its own result unchanged (SpecDefaults)
C8_EnsureDefaults ==
  last.op = "EnsureDefaults" =>
    /\ last.res.Level \in ValidLevels
    /\ last.res.Format \in ValidFormats
    /\ last.res.SensitiveInfoHandling \in ValidHandlings
    /\ last.res.File # ""
    /\ last.res.Level = IF last.arg.Level \in ValidLevels THEN last.arg.Level ELSE LevelInfo
    /\ last.res.Format =
         IF last.arg.Format \in ValidFormats THEN last.arg.Format ELSE FormatForHumans
    /\ last.res.SensitiveInfoHandling =
         IF last.arg.SensitiveInfoHandling \in ValidHandlings
           THEN last.arg.SensitiveInfoHandling ELSE ShowSensitiveInfoInPlainText
    /\ last.arg.File # "" => last.res.File = last.arg.File
    /\ last.res.OnlyLogDebugIfContainsLabel = last.arg.OnlyLogDebugIfContainsLabel
    /\ \A e \in EnvFiles, now \in 0..MaxClock, mkdirOk \in BOOLEAN :
         EnsureDefaults(last.res, ResolvedLogFile, e, now, mkdirOk).set = last.res

\* EnsureDefaults has returned for settings with a level and a format that
\* are not valid, a valid handling and no file
C8_Witness ==
  /\ last.op = "EnsureDefaults"
  /\ last.arg.Level = "warn" /\ last.res.Level = LevelInfo
  /\ last.arg.Format = "xml" /\ last.res.Format = FormatForHumans
  /\ last.arg.SensitiveInfoHandling = HashSensitiveInfo
  /\ last.res.SensitiveInfoHandling = HashSensitiveInfo
  /\ last.arg.File = "" /\ last.res.File # ""

\* C9: every call of GetLogFileOrDefault with no override returns the path
\* the first such call returned, whatever happens between the calls
\* (SpecLogFile)
C9_SamePath ==
  (last.op = "GetLogFileOrDefault" /\ last.use = "") => last.path = last.first

\* a call of fromCtx comes to its end: that of Flush, with a logger in the
\* context or after singleton has returned
FromCtxEnds(p) ==
  \/ \E ctx \in ctxs : Value(ctx).type # "nil" /\ CallFlush(p, ctx)
  \/ RetFlush(p)

\* C10: fromCtx never fails: it yields the logger the context holds, or else
\* the singleton, which it constructs from default settings when there is
\* none (Spec)
C10_FromCtx ==
  [][ \A p \in Procs :
        /\ FromCtxEnds(p) => panicked' = ""
        /\ RetFlush(p) =>
             /\ fr[p].got = cloggerton
             /\ fr[p].set.Level = LevelInfo /\ fr[p].set.Format = FormatForHumans ]_vars

\* C11: Seed with a nil logger returns the context it was given, so that
\* nothing new can be resolved from it; Seed with a logger returns a derived
\* context that carries the logger, and the context it was given stays as it
\* was (Spec)
C11_SeedNil ==
  [][ \A ctx \in ctxs, seed \in Seeds :
        CallSeed(ctx, seed) =>
          IF seed = NilZsl
            THEN ctxs' = ctxs
            ELSE /\ ctxs \subseteq ctxs'
                 /\ \E c \in ctxs' : c.cv = ctx.cv /\ Value(c).zsl = seed ]_vars

\* what the end of Write(p) leaves: no panic, len(p) returned, and one more
\* record in the sink, of info level, with string(p) for its message
Written(bytes) ==
  /\ panicked' = ""
  /\ last'.op = "Write" /\ last'.n = Len(bytes)
  /\ Len(sink') = Len(sink) + 1
  /\ SubSeq(sink', 1, Len(sink)) = sink
  /\ sink'[Len(sink')].lvl = lvlInfo
  /\ sink'[Len(sink')].msg = bytes

\* C12: Writer.Write(p) returns len(p) and no error, and hands p to the
\* logger as one info record, for every p and every context (SpecWriter)
C12_WriterWrite ==
  [][ /\ RetWrite("p1") => Written(fr["p1"].bytes)
      /\ \A ctx \in ctxs, bytes \in Payloads :
           (Value(ctx).type # "nil" /\ CallWrite("p1", ctx, bytes)) => Written(bytes) ]_vars

\* whether a record of the level l is to pass a logger configured with the
\* given Level
Passes(level, l) ==
  CASE level = LevelDebug -> TRUE
    [] level = LevelInfo -> l \in {lvlInfo, lvlError}
    [] level = LevelError -> l = lvlError
    [] OTHER -> FALSE

\* C13: without --test.v=true, a record handed to the singleton is written
\* exactly if its level is at or above the Level of the settings the
\* singleton was made from, for both formats; with disabled none is written
\* (SpecLevels)
C13_LevelFilter ==
  (~testV /\ Len(built) = 1) =>
    \A i \in DOMAIN sink :
      sink[i].zsl = built[1].zsl.id =>
        (sink[i].written <=> Passes(built[1].set.Level, sink[i].lvl))

\* C14: GetLogFileOrDefault called with a path returns that path, after the
\* rewrite of "-" and the directory check that may turn it into stderr,
\* whether or not a path has been resolved before (SpecLogFile)
C14_OverrideFirst ==
  (last.op = "GetLogFileOrDefault" /\ last.use # "") =>
    LET want == IF last.use = "-" THEN Stdout ELSE last.use
    IN \/ last.path = want
       \/ want \notin {Stdout, Stderr} /\ last.path = Stderr

\* C15: "-" never comes out of the settings resolver: the File EnsureDefaults
\* returns, the path GetLogFileOrDefault returns and the resolved path it
\* keeps are not "-", and settings whose File is "-" come back with stdout
\* (SpecLogFile)
C15_DashIsStdout ==
  /\ ResolvedLogFile # "-"
  /\ last.op = "GetLogFileOrDefault" => last.path # "-"
  /\ last.op = "EnsureDefaults" =>
       /\ last.res.File # "-"
       /\ last.arg.File = "-" => last.res.File = Stdout

\* C18: once ResolvedLogFile holds a path no step changes it, in every
\* interleaving of the goroutines calling Init and fromCtx (SpecResolved)
C18_WriteOnce ==
  [][ ResolvedLogFile # "" => ResolvedLogFile' = ResolvedLogFile ]_vars

\* the keys of a record with their values and collections
Merged(fields) ==
  { [k |-> k, v |-> FieldValue(fields, k), s |-> FieldSet(fields, k)] :
      k \in {fields[i].k : i \in DOMAIN fields} }

\* terminal calls on the new builder b hand the logger records with the
\* same keys, values and collections, whatever their level and the order of
\* the ranges over the maps
TerminalKeepsState(b) ==
  \A l1, l2 \in Levels, o1, o2, o3, o4 \in KeyOrders :
    Merged(log(builders'[b], l1, "m", o1, o2).fields)
      = Merged(log(builders'[b], l2, "m", o3, o4).fields)

\* C16: Ctx and CtxErr return a builder, and a terminal call on it hands one
\* record to the logger and leaves the builder as it was, so that two
\* terminal calls with no mutator call in between hand it records with the
\* same keys, values and collections (SpecBuilder)
C16_TerminalKeepsState == [][CtxGives(TerminalKeepsState)]_vars

\* C17: CtxOrSeed(ctx, logger, set) on a context without a logger returns a
\* context from which the logger it was given is resolved, whichever logger
\* that is (Spec)
C17_CtxOrSeed ==
  [][ \A p \in Procs :
        RetCtxOrSeed(p) =>
          \A logger \in Seeds \ {NilZsl} :
            LET out == embedIntoCtx(fr[p].ctx, fr[p].got.zsl)
            IN out \in ctxs' /\ Value(out).zsl = logger ]_vars

====
